---- MODULE Spec2Model ----
(***************************************************************************)
(* Model of dify-mcp-server: the tool-call handler of the stdio ("pipe")   *)
(* adapter (src/unnamed/part_000), of the SSE ("push") adapter             *)
(* (src/src/sse-server.ts), the command line tool                          *)
(* (src/src/dify-command-tool.ts) and the express routes of the SSE        *)
(* adapter.                                                                *)
(*                                                                         *)
(* JavaScript values are records [type, s]; a JavaScript string is kept in *)
(* s.  Text that is built by concatenation (fullResponse, stdout) is a     *)
(* sequence of letters, so "x" + "y" is <<"x","y">> and "" is <<>>.        *)
(* The bytes of the response stream are a sequence of symbols: "NL" is the *)
(* newline, "D" the marker "data: ", "{" and "}" the braces of a JSON      *)
(* object, "a:x" the member "answer":"x", "e:m" the member "error":"m",    *)
(* "null" the JSON literal null and "k" any other text (a keep-alive).     *)
(***************************************************************************)
EXTENDS Naturals, Sequences, FiniteSets

\* ------------------------------------------------------------ bounds
MaxLines == 2
PairMaxLines == 1
MaxChunks == 2
MaxConns == 3
MaxPosts == 3
CallMaxLines == 1
OvMaxChunks == 2

\* ------------------------------------------------- JavaScript values
Undefined == [type |-> "undefined", s |-> ""]
Null == [type |-> "null", s |-> ""]
Str(x) == [type |-> "string", s |-> x]
Num(x) == [type |-> "number", s |-> x]

\* typeof v: typeof null is "object"
TypeOf(v) == IF v.type = "null" THEN "object" ELSE v.type

\* ToBoolean(v) for the values that occur: undefined, null, "" are falsy
Truthy(v) ==
  CASE v.type = "string" -> v.s # ""
    [] v.type = "number" -> v.s # "0"
    [] OTHER -> FALSE

\* a || b
OrElse(a, b) == IF Truthy(a) THEN a ELSE b

\* the letters of a JavaScript string (strings here have at most one letter)
Letters(v) == IF v.type = "string" /\ v.s # "" THEN <<v.s>> ELSE <<>>

\* ------------------------------------------------ the response bytes
AnswerSyms == {"a:x", "a:y", "a:"}
ErrorSyms == {"e:m", "e:n"}
FieldSyms == AnswerSyms \cup ErrorSyms

\* the value of a member symbol
FieldValue(sym) ==
  CASE sym = "a:x" -> Str("x")
    [] sym = "a:y" -> Str("y")
    [] sym = "a:" -> Str("")
    [] sym = "e:m" -> Str("m")
    [] sym = "e:n" -> Str("n")
    [] OTHER -> Undefined

\* chunk.toString().split("\n"): "a\nb\n" gives "a", "b", ""
RECURSIVE Split(_)
Split(s) ==
  IF \A i \in 1..Len(s) : s[i] # "NL"
  THEN <<s>>
  ELSE LET i == CHOOSE j \in 1..Len(s) :
                  s[j] = "NL" /\ \A k \in 1..(j - 1) : s[k] # "NL"
       IN <<SubSeq(s, 1, i - 1)>> \o Split(SubSeq(s, i + 1, Len(s)))

\* line.startsWith("data: ")
StartsWithData(line) == Len(line) >= 1 /\ line[1] = "D"

\* line.slice(6)
Slice6(line) == SubSeq(line, 2, Len(line))

\* the last member of payload p with a symbol of syms, or undefined
RECURSIVE LastField(_, _)
LastField(p, syms) ==
  IF p = <<>> THEN Undefined
  ELSE IF p[Len(p)] \in syms THEN FieldValue(p[Len(p)])
  ELSE LastField(SubSeq(p, 1, Len(p) - 1), syms)

\* JSON.parse(text): [ok |-> FALSE] when it throws a SyntaxError, else the
\* value: null, or an object with its members error and answer
JSONParse(p) ==
  IF p = <<"null">>
  THEN [ok |-> TRUE, isNull |-> TRUE, error |-> Undefined, answer |-> Undefined]
  ELSE IF /\ Len(p) >= 2
          /\ p[1] = "{"
          /\ p[Len(p)] = "}"
          /\ \A i \in 2..(Len(p) - 1) : p[i] \in FieldSyms
  THEN [ok |-> TRUE, isNull |-> FALSE,
        error |-> LastField(p, ErrorSyms),
        answer |-> LastField(p, AnswerSyms)]
  ELSE [ok |-> FALSE, isNull |-> FALSE, error |-> Undefined, answer |-> Undefined]

\* ------------------------------------------------------ file system
\* fs.existsSync(path): the paths that name a file
ExistingPaths == {"/img.png"}
ExistsSync(path) == path \in ExistingPaths

\* ------------------------------------------------------------ errors
\* a thrown value: cls is its class, code the McpError code, text its message
AxiosError(respMsg) ==
  [cls |-> "AxiosError", code |-> "", respMsg |-> respMsg, message |-> Str("t"),
   text |-> <<>>]
McpError(code, text) ==
  [cls |-> "McpError", code |-> code, respMsg |-> Undefined, message |-> Undefined,
   text |-> text]
KeyError ==
  [cls |-> "Error", code |-> "", respMsg |-> Undefined, message |-> Undefined,
   text |-> <<"K">>]

\* axios.isAxiosError(error)
IsAxiosError(error) == error.cls = "AxiosError"

\* error.response?.data?.message || error.message
AxiosMessage(error) == Letters(OrElse(error.respMsg, error.message))

\* what a handler ends with
NoOutcome == [kind |-> "none", code |-> "", text |-> <<>>, isError |-> FALSE]
Thrown(error) ==
  [kind |-> error.cls, code |-> error.code, text |-> error.text, isError |-> FALSE]
ToolResult(text, isErr) ==
  [kind |-> "result", code |-> "", text |-> text, isError |-> isErr]

\* a remote call, and the file reference of a chat-messages call
UploadCall(path, user) ==
  [api |-> "upload", arg |-> path, files |-> <<>>, user |-> user]
ChatCall(query, fileRefs, user) ==
  [api |-> "chat", arg |-> query, files |-> fileRefs, user |-> user]
FileInput(id) ==
  [type |-> "image", transfer_method |-> "local_file", upload_file_id |-> id]

\* --------------------------------------- src/unnamed/part_000 (pipe)
PipeToolName == "antd-component-codegen-mcp-tool"
PipeUser == "mcp-user"

\* isValidChatRequest without the fs.existsSync test
isValidChatRequestNoExists(args) ==
  /\ TypeOf(args) = "object"
  /\ args.type # "null"
  /\ TypeOf(args.query) = "string"
  /\ \/ args.imageFilePath.type = "undefined"
     \/ TypeOf(args.imageFilePath) = "string"

isValidChatRequest(args) ==
  /\ TypeOf(args) = "object"
  /\ args.type # "null"
  /\ TypeOf(args.query) = "string"
  /\ \/ args.imageFilePath.type = "undefined"
     \/ /\ TypeOf(args.imageFilePath) = "string"
        /\ ExistsSync(args.imageFilePath.s)

\* uploadFile on the remote's answer resp: the response data, or the throw
PipeUploadFile(resp) ==
  IF resp.state = "ok"
  THEN [threw |-> FALSE, id |-> resp.id, error |-> KeyError]
  ELSE LET error == AxiosError(resp.respMsg)
       IN IF IsAxiosError(error)
          THEN [threw |-> TRUE, id |-> "",
                error |-> McpError("InternalError", <<"U">> \o AxiosMessage(error))]
          ELSE [threw |-> TRUE, id |-> "", error |-> error]

\* the handler's catch turning every error into a tool result
PipeCatchAll(error) ==
  IF IsAxiosError(error)
  THEN ToolResult(AxiosMessage(error), TRUE)
  ELSE ToolResult(error.text, TRUE)

\* the catch of the handler's try block
PipeCatch(error) ==
  IF IsAxiosError(error)
  THEN ToolResult(AxiosMessage(error), TRUE)
  ELSE Thrown(error)

\* the line step putting a fragment before the text instead of after it
PipeLinePrepend(acc, line) ==
  IF StartsWithData(line)
  THEN LET jsonData == JSONParse(Slice6(line))
       IN IF ~jsonData.ok \/ jsonData.isNull
          THEN [fullResponse |-> acc.fullResponse, isError |-> acc.isError,
                ctl |-> "next"]
          ELSE IF Truthy(jsonData.error)
          THEN [fullResponse |-> Letters(jsonData.error), isError |-> TRUE,
                ctl |-> "break"]
          ELSE [fullResponse |->
                  Letters(OrElse(jsonData.answer, Str(""))) \o acc.fullResponse,
                isError |-> acc.isError, ctl |-> "next"]
  ELSE [fullResponse |-> acc.fullResponse, isError |-> acc.isError, ctl |-> "next"]

\* the line step with JSON.parse outside the try: a bad payload ends the loop
PipeLineAbortOnBadJson(acc, line) ==
  IF StartsWithData(line)
  THEN LET jsonData == JSONParse(Slice6(line))
       IN IF ~jsonData.ok \/ jsonData.isNull
          THEN [fullResponse |-> acc.fullResponse, isError |-> acc.isError,
                ctl |-> "break"]
          ELSE IF Truthy(jsonData.error)
          THEN [fullResponse |-> Letters(jsonData.error), isError |-> TRUE,
                ctl |-> "break"]
          ELSE [fullResponse |->
                  acc.fullResponse \o Letters(OrElse(jsonData.answer, Str(""))),
                isError |-> acc.isError, ctl |-> "next"]
  ELSE [fullResponse |-> acc.fullResponse, isError |-> acc.isError, ctl |-> "next"]

\* the loop body clearing isError when a record without an error arrives
PipeLineClearsError(acc, line) ==
  IF StartsWithData(line)
  THEN LET jsonData == JSONParse(Slice6(line))
       IN IF ~jsonData.ok \/ jsonData.isNull
          THEN [fullResponse |-> acc.fullResponse, isError |-> acc.isError,
                ctl |-> "next"]
          ELSE IF Truthy(jsonData.error)
          THEN [fullResponse |-> Letters(jsonData.error), isError |-> TRUE,
                ctl |-> "break"]
          ELSE [fullResponse |->
                  acc.fullResponse \o Letters(OrElse(jsonData.answer, Str(""))),
                isError |-> FALSE, ctl |-> "next"]
  ELSE [fullResponse |-> acc.fullResponse, isError |-> acc.isError, ctl |-> "next"]

\* the loop body taking the answer member out of a payload that does not parse
PipeLineKeepsFragment(acc, line) ==
  IF StartsWithData(line)
  THEN LET jsonData == JSONParse(Slice6(line))
       IN IF ~jsonData.ok \/ jsonData.isNull
          THEN [fullResponse |->
                  acc.fullResponse
                    \o Letters(OrElse(LastField(Slice6(line), AnswerSyms), Str(""))),
                isError |-> acc.isError, ctl |-> "next"]
          ELSE IF Truthy(jsonData.error)
          THEN [fullResponse |-> Letters(jsonData.error), isError |-> TRUE,
                ctl |-> "break"]
          ELSE [fullResponse |->
                  acc.fullResponse \o Letters(OrElse(jsonData.answer, Str(""))),
                isError |-> acc.isError, ctl |-> "next"]
  ELSE [fullResponse |-> acc.fullResponse, isError |-> acc.isError, ctl |-> "next"]

\* the loop body going on to the next line of the chunk after an error record
PipeLineNoBreak(acc, line) ==
  IF StartsWithData(line)
  THEN LET jsonData == JSONParse(Slice6(line))
       IN IF ~jsonData.ok \/ jsonData.isNull
          THEN [fullResponse |-> acc.fullResponse, isError |-> acc.isError,
                ctl |-> "next"]
          ELSE IF Truthy(jsonData.error)
          THEN [fullResponse |-> Letters(jsonData.error), isError |-> TRUE,
                ctl |-> "next"]
          ELSE [fullResponse |->
                  acc.fullResponse \o Letters(OrElse(jsonData.answer, Str(""))),
                isError |-> acc.isError, ctl |-> "next"]
  ELSE [fullResponse |-> acc.fullResponse, isError |-> acc.isError, ctl |-> "next"]

\* the body of "for (const line of lines)" on one line; acc holds
\* fullResponse and isError, ctl says how the loop goes on
PipeLine(acc, line) ==
  IF StartsWithData(line)
  THEN LET jsonData == JSONParse(Slice6(line))
       IN IF ~jsonData.ok \/ jsonData.isNull
          THEN [fullResponse |-> acc.fullResponse, isError |-> acc.isError,
                ctl |-> "next"]
          ELSE IF Truthy(jsonData.error)
          THEN [fullResponse |-> Letters(jsonData.error), isError |-> TRUE,
                ctl |-> "break"]
          ELSE [fullResponse |->
                  acc.fullResponse \o Letters(OrElse(jsonData.answer, Str(""))),
                isError |-> acc.isError, ctl |-> "next"]
  ELSE [fullResponse |-> acc.fullResponse, isError |-> acc.isError, ctl |-> "next"]

\* ---------------------------------------- src/src/sse-server.ts (push)
SseToolName == "antd-component-codegen-mcp-tool"
SseUser == "mcp-user"

SseIsValidChatRequest(args) ==
  /\ TypeOf(args) = "object"
  /\ args.type # "null"
  /\ TypeOf(args.query) = "string"
  /\ \/ args.imageFilePath.type = "undefined"
     \/ /\ TypeOf(args.imageFilePath) = "string"
        /\ ExistsSync(args.imageFilePath.s)

SseUploadFile(resp) ==
  IF resp.state = "ok"
  THEN [threw |-> FALSE, id |-> resp.id, error |-> KeyError]
  ELSE LET error == AxiosError(resp.respMsg)
       IN IF IsAxiosError(error)
          THEN [threw |-> TRUE, id |-> "",
                error |-> McpError("InternalError", <<"U">> \o AxiosMessage(error))]
          ELSE [threw |-> TRUE, id |-> "", error |-> error]

SseCatch(error) ==
  IF IsAxiosError(error)
  THEN ToolResult(AxiosMessage(error), TRUE)
  ELSE Thrown(error)

\* the line step without the test of jsonData.error
SseLineIgnoreError(acc, line) ==
  IF StartsWithData(line)
  THEN LET jsonData == JSONParse(Slice6(line))
       IN IF ~jsonData.ok \/ jsonData.isNull
          THEN [fullResponse |-> acc.fullResponse, isError |-> acc.isError,
                ctl |-> "next"]
          ELSE [fullResponse |->
                  acc.fullResponse \o Letters(OrElse(jsonData.answer, Str(""))),
                isError |-> acc.isError, ctl |-> "next"]
  ELSE [fullResponse |-> acc.fullResponse, isError |-> acc.isError, ctl |-> "next"]

SseLine(acc, line) ==
  IF StartsWithData(line)
  THEN LET jsonData == JSONParse(Slice6(line))
       IN IF ~jsonData.ok \/ jsonData.isNull
          THEN [fullResponse |-> acc.fullResponse, isError |-> acc.isError,
                ctl |-> "next"]
          ELSE IF Truthy(jsonData.error)
          THEN [fullResponse |-> Letters(jsonData.error), isError |-> TRUE,
                ctl |-> "break"]
          ELSE [fullResponse |->
                  acc.fullResponse \o Letters(OrElse(jsonData.answer, Str(""))),
                isError |-> acc.isError, ctl |-> "next"]
  ELSE [fullResponse |-> acc.fullResponse, isError |-> acc.isError, ctl |-> "next"]

\* ------------------------------- the code of adapter p ("pipe", "push")
ToolNameOf(p) == IF p = "pipe" THEN PipeToolName ELSE SseToolName
UserOf(p) == IF p = "pipe" THEN PipeUser ELSE SseUser
ValidArgs(p, args) ==
  IF p = "pipe" THEN isValidChatRequest(args) ELSE SseIsValidChatRequest(args)
UploadFileOf(p, resp) ==
  IF p = "pipe" THEN PipeUploadFile(resp) ELSE SseUploadFile(resp)
CatchOf(p, error) == IF p = "pipe" THEN PipeCatch(error) ELSE SseCatch(error)
LineOf(p, acc, line) == IF p = "pipe" THEN PipeLine(acc, line) ELSE SseLine(acc, line)

\* ------------------------------- src/src/dify-command-tool.ts (CLI)
CliUser == "cli-user"

\* uploadFile of the command line tool has no catch: the axios error is thrown
CliUploadFile(resp) ==
  IF resp.state = "ok"
  THEN [threw |-> FALSE, id |-> resp.id, error |-> KeyError]
  ELSE [threw |-> TRUE, id |-> "", error |-> AxiosError(resp.respMsg)]

\* the catch of sendChatMessage: the error is written to stderr, nothing is thrown
CliCatch(error) ==
  IF IsAxiosError(error)
  THEN [kind |-> "logged", code |-> "", text |-> AxiosMessage(error), isError |-> TRUE]
  ELSE [kind |-> "logged", code |-> "", text |-> error.text, isError |-> TRUE]

\* the loop body reporting an error record and going on with the next line
CliLineContinue(out, line) ==
  IF StartsWithData(line)
  THEN LET jsonData == JSONParse(Slice6(line))
       IN IF ~jsonData.ok \/ jsonData.isNull
          THEN [stdout |-> out, error |-> <<>>, ctl |-> "next"]
          ELSE IF Truthy(jsonData.error)
          THEN [stdout |-> out, error |-> Letters(jsonData.error), ctl |-> "next"]
          ELSE IF Truthy(jsonData.answer)
          THEN [stdout |-> out \o Letters(jsonData.answer), error |-> <<>>,
                ctl |-> "next"]
          ELSE [stdout |-> out, error |-> <<>>, ctl |-> "next"]
  ELSE [stdout |-> out, error |-> <<>>, ctl |-> "next"]

\* the body of "for (const line of lines)" on one line; out is what was
\* written to stdout so far
CliLine(out, line) ==
  IF StartsWithData(line)
  THEN LET jsonData == JSONParse(Slice6(line))
       IN IF ~jsonData.ok \/ jsonData.isNull
          THEN [stdout |-> out, error |-> <<>>, ctl |-> "next"]
          ELSE IF Truthy(jsonData.error)
          THEN [stdout |-> out, error |-> Letters(jsonData.error), ctl |-> "return"]
          ELSE IF Truthy(jsonData.answer)
          THEN [stdout |-> out \o Letters(jsonData.answer), error |-> <<>>,
                ctl |-> "next"]
          ELSE [stdout |-> out, error |-> <<>>, ctl |-> "next"]
  ELSE [stdout |-> out, error |-> <<>>, ctl |-> "next"]

\* -------------------------------------------------------- the inputs
Adapters == {"pipe", "push"}
AllProcs == {"pipe", "push", "cli"}
\* one run is one program
ProcSets == {{"pipe"}, {"push"}, {"cli"}}

ToolNames == {"antd-component-codegen-mcp-tool", "other-tool"}
QueryValues == {Undefined, Num("5"), Str(""), Str("q")}
ImageValues == {Undefined, Num("7"), Str(""), Str("/img.png"), Str("/gone.png")}
NoArguments == [type |-> "undefined", query |-> Undefined, imageFilePath |-> Undefined]
ArgumentValues ==
  {NoArguments, [type |-> "null", query |-> Undefined, imageFilePath |-> Undefined]}
  \cup [type : {"object"}, query : QueryValues, imageFilePath : ImageValues]
Requests == [name : ToolNames, arguments : ArgumentValues]
NoRequest == [name |-> "", arguments |-> NoArguments]

\* process.argv[2] and process.argv[3]: strings, or undefined when not given
NoArgv == [query |-> Undefined, imageFilePath |-> Undefined]
CliArgvs ==
  [query : {Undefined, Str(""), Str("q")},
   imageFilePath : {Undefined, Str("/img.png"), Str("/gone.png")}]

\* the remote's answers
Unset == [state |-> "unset", id |-> "", respMsg |-> Undefined]
UploadResps ==
  [state : {"ok"}, id : {"f1", "f2"}, respMsg : {Undefined}]
  \cup [state : {"fail"}, id : {""}, respMsg : {Undefined, Str("r")}]
ChatResps ==
  {[state |-> "ok", id |-> "", respMsg |-> Undefined]}
  \cup [state : {"fail"}, id : {""}, respMsg : {Undefined, Str("r")}]

\* the lines the remote may send, and the byte streams made of them
LineSet ==
  { <<"D", "{", "a:x", "}">>, <<"D", "{", "a:y", "}">>, <<"D", "{", "a:", "}">>,
    <<"D", "{", "}">>, <<"D", "{", "e:m", "}">>, <<"D", "{", "e:n", "}">>,
    <<"D", "{", "a:x">>, <<"D", "null">>, <<"k">> }

RECURSIVE Join(_)
Join(ls) == IF ls = <<>> THEN <<>> ELSE Head(ls) \o <<"NL">> \o Join(Tail(ls))

\* --------------------------------------------------------- the state
VARIABLES
  procs,            \* the programs that were started
  apiKey,           \* process.env.DIFY_API_KEY is set
  request,          \* the tools/call request given to the adapters
  argv,             \* the arguments of the command line tool
  uploadResp,       \* the remote's answer to POST /files/upload, once given
  chatResp,         \* the remote's answer to POST /chat-messages, once given
  chunks,           \* the chunks of the response stream delivered so far
  rest,             \* the bytes of the response stream not yet delivered
  pc,               \* where each program is
  registered,       \* setRequestHandler was called
  listening,        \* server.connect(stdio) / app.listen was called
  calls,            \* the remote calls each program issued, in order
  files,            \* the handler's local files
  fullResponse,     \* the handler's local fullResponse
  isError,          \* the handler's local isError
  lines,            \* the lines of the current chunk not yet looked at
  nread,            \* the number of chunks each program has read
  outcome,          \* what each program's call ended with
  stdout,           \* what the command line tool wrote to standard output
  currentTransport, \* DifySSEServer.currentTransport: 0 is null
  open,             \* the /sse connections that are open
  nconn,            \* the number of /sse connections made
  posts,            \* the answers to POST /messages: <<status, channel>>
  callPc,           \* where each of two overlapping tool calls is
  callRequest,      \* the tools/call request of each of them
  callUploadResp,   \* the remote's answer to its upload
  callChatResp,     \* the remote's answer to its chat-messages call
  callChunks,       \* the chunks of its response stream delivered so far
  callCalls,        \* the remote calls it issued
  slotFullResponse, \* fullResponse, by the place that holds it
  slotIsError,      \* isError, by the place that holds it
  callOutcome       \* what each of the two calls ended with

remoteVars == <<uploadResp, chatResp, chunks, rest>>
inputVars == <<procs, apiKey, request, argv>>
localVars == <<files, fullResponse, isError, lines, nread, stdout>>
httpVars == <<currentTransport, open, nconn, posts>>
overlapVars ==
  <<callPc, callRequest, callUploadResp, callChatResp, callChunks, callCalls,
    slotFullResponse, slotIsError, callOutcome>>
vars ==
  <<procs, apiKey, request, argv, uploadResp, chatResp, chunks, rest, pc,
    registered, listening, calls, files, fullResponse, isError, lines, nread,
    outcome, stdout, currentTransport, open, nconn, posts, callPc, callRequest,
    callUploadResp, callChatResp, callChunks, callCalls, slotFullResponse,
    slotIsError, callOutcome>>

\* two tool calls of one adapter, none of them received yet
Calls == {"c1", "c2"}
InitCalls ==
  /\ callPc = [c \in Calls |-> "idle"]
  /\ callRequest = [c \in Calls |-> NoRequest]
  /\ callUploadResp = [c \in Calls |-> Unset]
  /\ callChatResp = [c \in Calls |-> Unset]
  /\ callChunks = [c \in Calls |-> <<>>]
  /\ callCalls = [c \in Calls |-> <<>>]
  /\ slotFullResponse = [c \in Calls |-> <<>>]
  /\ slotIsError = [c \in Calls |-> FALSE]
  /\ callOutcome = [c \in Calls |-> NoOutcome]

\* the state of every program before it runs
InitLocals ==
  /\ uploadResp = Unset
  /\ chatResp = Unset
  /\ chunks = <<>>
  /\ rest = <<>>
  /\ pc = [p \in AllProcs |-> IF p \in procs THEN "start" ELSE "off"]
  /\ registered = [p \in AllProcs |-> FALSE]
  /\ listening = [p \in AllProcs |-> FALSE]
  /\ calls = [p \in AllProcs |-> <<>>]
  /\ files = [p \in AllProcs |-> <<>>]
  /\ fullResponse = [p \in AllProcs |-> <<>>]
  /\ isError = [p \in AllProcs |-> FALSE]
  /\ lines = [p \in AllProcs |-> <<>>]
  /\ nread = [p \in AllProcs |-> 0]
  /\ outcome = [p \in AllProcs |-> NoOutcome]
  /\ stdout = <<>>
  /\ currentTransport = 0
  /\ open = {}
  /\ nconn = 0
  /\ posts = <<>>
  /\ InitCalls

Init ==
  /\ procs \in ProcSets
  /\ apiKey \in BOOLEAN
  /\ IF "cli" \in procs
     THEN request = NoRequest /\ argv \in CliArgvs
     ELSE request \in Requests /\ argv = NoArgv
  /\ InitLocals

StreamsOf(max) == {Join(ls) : ls \in UNION {[1..n -> LineSet] : n \in 0..max}}
\* the streams of a run of one program, and of a run of both adapters
Streams == IF procs = Adapters THEN StreamsOf(PairMaxLines) ELSE StreamsOf(MaxLines)

\* the remote's answer to a call: the one already given, or a new one
Answer(given, fresh) == IF given = Unset THEN fresh ELSE {given}

\* ------------------------------------------ the adapters' tool call
\* the start without the test of API_KEY
StartupNoKeyCheck(p) ==
  /\ p \in Adapters
  /\ pc[p] = "start"
  /\ pc' = [pc EXCEPT ![p] = "ready"]
  /\ registered' = [registered EXCEPT ![p] = TRUE]
  /\ listening' = [listening EXCEPT ![p] = TRUE]
  /\ UNCHANGED <<inputVars, overlapVars, remoteVars, localVars, httpVars, calls, outcome>>

\* the module's top level, the constructor and run()
Startup(p) ==
  /\ p \in Adapters
  /\ pc[p] = "start"
  /\ IF ~apiKey
     THEN /\ pc' = [pc EXCEPT ![p] = "crashed"]
          /\ outcome' = [outcome EXCEPT ![p] = Thrown(KeyError)]
          /\ UNCHANGED <<registered, listening>>
     ELSE /\ pc' = [pc EXCEPT ![p] = "ready"]
          /\ registered' = [registered EXCEPT ![p] = TRUE]
          /\ listening' = [listening EXCEPT ![p] = TRUE]
          /\ UNCHANGED outcome
  /\ UNCHANGED <<inputVars, overlapVars, remoteVars, localVars, httpVars, calls>>

\* the handler testing the arguments before the tool name
CallToolArgsFirst(p) ==
  /\ p \in Adapters
  /\ pc[p] = "ready"
  /\ LET args == request.arguments
     IN IF ~ValidArgs(p, args)
        THEN /\ outcome' = [outcome EXCEPT ![p] = Thrown(McpError("InvalidParams", <<>>))]
             /\ pc' = [pc EXCEPT ![p] = "done"]
             /\ UNCHANGED calls
        ELSE IF request.name # ToolNameOf(p)
        THEN /\ outcome' = [outcome EXCEPT ![p] = Thrown(McpError("MethodNotFound", <<>>))]
             /\ pc' = [pc EXCEPT ![p] = "done"]
             /\ UNCHANGED calls
        ELSE IF Truthy(args.imageFilePath)
        THEN /\ calls' = [calls EXCEPT
                            ![p] = Append(@, UploadCall(args.imageFilePath.s, UserOf(p)))]
             /\ pc' = [pc EXCEPT ![p] = "awaitUpload"]
             /\ UNCHANGED outcome
        ELSE /\ calls' = [calls EXCEPT
                            ![p] = Append(@, ChatCall(args.query.s, <<>>, UserOf(p)))]
             /\ pc' = [pc EXCEPT ![p] = "awaitChat"]
             /\ UNCHANGED outcome
  /\ UNCHANGED <<inputVars, overlapVars, remoteVars, localVars, httpVars, registered, listening>>

\* the CallToolRequestSchema handler up to its first await
CallTool(p) ==
  /\ p \in Adapters
  /\ pc[p] = "ready"
  /\ LET args == request.arguments
     IN IF request.name # ToolNameOf(p)
        THEN /\ outcome' = [outcome EXCEPT ![p] = Thrown(McpError("MethodNotFound", <<>>))]
             /\ pc' = [pc EXCEPT ![p] = "done"]
             /\ UNCHANGED calls
        ELSE IF ~ValidArgs(p, args)
        THEN /\ outcome' = [outcome EXCEPT ![p] = Thrown(McpError("InvalidParams", <<>>))]
             /\ pc' = [pc EXCEPT ![p] = "done"]
             /\ UNCHANGED calls
        ELSE IF Truthy(args.imageFilePath)
        THEN /\ calls' = [calls EXCEPT
                            ![p] = Append(@, UploadCall(args.imageFilePath.s, UserOf(p)))]
             /\ pc' = [pc EXCEPT ![p] = "awaitUpload"]
             /\ UNCHANGED outcome
        ELSE /\ calls' = [calls EXCEPT
                            ![p] = Append(@, ChatCall(args.query.s, <<>>, UserOf(p)))]
             /\ pc' = [pc EXCEPT ![p] = "awaitChat"]
             /\ UNCHANGED outcome
  /\ UNCHANGED <<inputVars, overlapVars, remoteVars, localVars, httpVars, registered, listening>>

\* await this.uploadFile(...) ends; on success the chat-messages call is issued
UploadReturns(p) ==
  /\ p \in Adapters
  /\ pc[p] = "awaitUpload"
  /\ \E resp \in Answer(uploadResp, UploadResps) :
       /\ uploadResp' = resp
       /\ LET up == UploadFileOf(p, resp)
              newFiles == Append(files[p], FileInput(up.id))
          IN IF up.threw
             THEN /\ outcome' = [outcome EXCEPT ![p] = CatchOf(p, up.error)]
                  /\ pc' = [pc EXCEPT ![p] = "done"]
                  /\ UNCHANGED <<files, calls>>
             ELSE /\ files' = [files EXCEPT ![p] = newFiles]
                  /\ calls' = [calls EXCEPT
                       ![p] = Append(@, ChatCall(request.arguments.query.s, newFiles,
                                                 UserOf(p)))]
                  /\ pc' = [pc EXCEPT ![p] = "awaitChat"]
                  /\ UNCHANGED outcome
  /\ UNCHANGED <<inputVars, overlapVars, chatResp, chunks, rest, fullResponse, isError, lines,
                 nread, stdout, httpVars, registered, listening>>

\* await this.axiosInstance.post("/chat-messages", ...) ends
ChatReturns(p) ==
  /\ p \in Adapters
  /\ pc[p] = "awaitChat"
  /\ \E resp \in Answer(chatResp, ChatResps) :
       /\ chatResp' = resp
       /\ IF resp.state = "ok"
          THEN /\ fullResponse' = [fullResponse EXCEPT ![p] = <<>>]
               /\ isError' = [isError EXCEPT ![p] = FALSE]
               /\ pc' = [pc EXCEPT ![p] = "stream"]
               /\ IF chatResp = Unset
                  THEN rest' \in Streams
                  ELSE UNCHANGED rest
               /\ UNCHANGED outcome
          ELSE /\ outcome' = [outcome EXCEPT
                                ![p] = CatchOf(p, AxiosError(resp.respMsg))]
               /\ pc' = [pc EXCEPT ![p] = "done"]
               /\ UNCHANGED <<fullResponse, isError, rest>>
  /\ UNCHANGED <<inputVars, overlapVars, uploadResp, chunks, files, lines, nread, stdout,
                 httpVars, registered, listening, calls>>

\* the chunk number n of the stream: delivered already, or cut from the rest
\* now (the last chunk allowed takes all of the rest)
NextChunk(n, k) ==
  IF n < Len(chunks) THEN chunks[n + 1] ELSE SubSeq(rest, 1, k)
CutSizes(n) ==
  IF n < Len(chunks) THEN {0}
  ELSE IF Len(chunks) + 1 >= MaxChunks THEN {Len(rest)}
  ELSE 1..Len(rest)

\* for await (const chunk of response.data): one chunk arrives and is split
ReadChunk(p) ==
  /\ p \in Adapters
  /\ pc[p] = "stream"
  /\ nread[p] < Len(chunks) \/ rest # <<>>
  /\ \E k \in CutSizes(nread[p]) :
       /\ lines' = [lines EXCEPT ![p] = Split(NextChunk(nread[p], k))]
       /\ IF nread[p] < Len(chunks)
          THEN UNCHANGED <<chunks, rest>>
          ELSE /\ chunks' = Append(chunks, SubSeq(rest, 1, k))
               /\ rest' = SubSeq(rest, k + 1, Len(rest))
  /\ nread' = [nread EXCEPT ![p] = @ + 1]
  /\ pc' = [pc EXCEPT ![p] = "line"]
  /\ UNCHANGED <<inputVars, overlapVars, uploadResp, chatResp, files, fullResponse, isError,
                 stdout, httpVars, registered, listening, calls, outcome>>

\* one turn of for (const line of lines)
ProcessLine(p) ==
  /\ p \in Adapters
  /\ pc[p] = "line"
  /\ LET r == LineOf(p, [fullResponse |-> fullResponse[p], isError |-> isError[p]],
                     Head(lines[p]))
         left == IF r.ctl = "break" THEN <<>> ELSE Tail(lines[p])
     IN /\ fullResponse' = [fullResponse EXCEPT ![p] = r.fullResponse]
        /\ isError' = [isError EXCEPT ![p] = r.isError]
        /\ lines' = [lines EXCEPT ![p] = left]
        /\ pc' = [pc EXCEPT ![p] = IF left = <<>> THEN "stream" ELSE "line"]
  /\ UNCHANGED <<inputVars, overlapVars, remoteVars, files, nread, stdout, httpVars, registered,
                 listening, calls, outcome>>

\* the stream signals end-of-data: the handler returns content and isError
StreamEnd(p) ==
  /\ p \in Adapters
  /\ pc[p] = "stream"
  /\ nread[p] = Len(chunks)
  /\ rest = <<>>
  /\ outcome' = [outcome EXCEPT ![p] = ToolResult(fullResponse[p], isError[p])]
  /\ pc' = [pc EXCEPT ![p] = "done"]
  /\ UNCHANGED <<inputVars, overlapVars, remoteVars, localVars, httpVars, registered, listening,
                 calls>>

\* ------------------------------------------- the command line tool
\* the argument check, and sendChatMessage up to its first await
CliMain ==
  /\ pc["cli"] = "start"
  /\ IF ~Truthy(argv.query)
     THEN /\ outcome' = [outcome EXCEPT
                 !["cli"] = [kind |-> "exit", code |-> "1", text |-> <<>>,
                             isError |-> TRUE]]
          /\ pc' = [pc EXCEPT !["cli"] = "done"]
          /\ UNCHANGED calls
     ELSE IF ~apiKey
     THEN /\ outcome' = [outcome EXCEPT !["cli"] = Thrown(KeyError)]
          /\ pc' = [pc EXCEPT !["cli"] = "done"]
          /\ UNCHANGED calls
     ELSE IF Truthy(argv.imageFilePath) /\ ExistsSync(argv.imageFilePath.s)
     THEN /\ calls' = [calls EXCEPT
                 !["cli"] = Append(@, UploadCall(argv.imageFilePath.s, CliUser))]
          /\ pc' = [pc EXCEPT !["cli"] = "awaitUpload"]
          /\ UNCHANGED outcome
     ELSE /\ calls' = [calls EXCEPT
                 !["cli"] = Append(@, ChatCall(argv.query.s, <<>>, CliUser))]
          /\ pc' = [pc EXCEPT !["cli"] = "awaitChat"]
          /\ UNCHANGED outcome
  /\ UNCHANGED <<inputVars, overlapVars, remoteVars, localVars, httpVars, registered, listening>>

CliUploadReturns ==
  /\ pc["cli"] = "awaitUpload"
  /\ \E resp \in Answer(uploadResp, UploadResps) :
       /\ uploadResp' = resp
       /\ LET up == CliUploadFile(resp)
              newFiles == Append(files["cli"], FileInput(up.id))
          IN IF up.threw
             THEN /\ outcome' = [outcome EXCEPT !["cli"] = CliCatch(up.error)]
                  /\ pc' = [pc EXCEPT !["cli"] = "done"]
                  /\ UNCHANGED <<files, calls>>
             ELSE /\ files' = [files EXCEPT !["cli"] = newFiles]
                  /\ calls' = [calls EXCEPT
                       !["cli"] = Append(@, ChatCall(argv.query.s, newFiles, CliUser))]
                  /\ pc' = [pc EXCEPT !["cli"] = "awaitChat"]
                  /\ UNCHANGED outcome
  /\ UNCHANGED <<inputVars, overlapVars, chatResp, chunks, rest, fullResponse, isError, lines,
                 nread, stdout, httpVars, registered, listening>>

CliChatReturns ==
  /\ pc["cli"] = "awaitChat"
  /\ \E resp \in Answer(chatResp, ChatResps) :
       /\ chatResp' = resp
       /\ IF resp.state = "ok"
          THEN /\ pc' = [pc EXCEPT !["cli"] = "stream"]
               /\ IF chatResp = Unset
                  THEN rest' \in Streams
                  ELSE UNCHANGED rest
               /\ UNCHANGED outcome
          ELSE /\ outcome' = [outcome EXCEPT
                                !["cli"] = CliCatch(AxiosError(resp.respMsg))]
               /\ pc' = [pc EXCEPT !["cli"] = "done"]
               /\ UNCHANGED rest
  /\ UNCHANGED <<inputVars, overlapVars, uploadResp, chunks, localVars, httpVars, registered,
                 listening, calls>>

CliReadChunk ==
  /\ pc["cli"] = "stream"
  /\ nread["cli"] < Len(chunks) \/ rest # <<>>
  /\ \E k \in CutSizes(nread["cli"]) :
       /\ lines' = [lines EXCEPT !["cli"] = Split(NextChunk(nread["cli"], k))]
       /\ IF nread["cli"] < Len(chunks)
          THEN UNCHANGED <<chunks, rest>>
          ELSE /\ chunks' = Append(chunks, SubSeq(rest, 1, k))
               /\ rest' = SubSeq(rest, k + 1, Len(rest))
  /\ nread' = [nread EXCEPT !["cli"] = @ + 1]
  /\ pc' = [pc EXCEPT !["cli"] = "line"]
  /\ UNCHANGED <<inputVars, overlapVars, uploadResp, chatResp, files, fullResponse, isError,
                 stdout, httpVars, registered, listening, calls, outcome>>

CliProcessLine ==
  /\ pc["cli"] = "line"
  /\ LET r == CliLine(stdout, Head(lines["cli"]))
         left == Tail(lines["cli"])
     IN /\ stdout' = r.stdout
        /\ IF r.ctl = "return"
           THEN /\ outcome' = [outcome EXCEPT
                       !["cli"] = [kind |-> "errorRecord", code |-> "",
                                   text |-> r.error, isError |-> TRUE]]
                /\ pc' = [pc EXCEPT !["cli"] = "done"]
                /\ UNCHANGED lines
           ELSE /\ lines' = [lines EXCEPT !["cli"] = left]
                /\ pc' = [pc EXCEPT !["cli"] = IF left = <<>> THEN "stream" ELSE "line"]
                /\ UNCHANGED outcome
  /\ UNCHANGED <<inputVars, overlapVars, remoteVars, files, fullResponse, isError, nread, httpVars,
                 registered, listening, calls>>

CliStreamEnd ==
  /\ pc["cli"] = "stream"
  /\ nread["cli"] = Len(chunks)
  /\ rest = <<>>
  /\ outcome' = [outcome EXCEPT
        !["cli"] = [kind |-> "returned", code |-> "", text |-> <<>>, isError |-> FALSE]]
  /\ pc' = [pc EXCEPT !["cli"] = "done"]
  /\ UNCHANGED <<inputVars, overlapVars, remoteVars, localVars, httpVars, registered, listening,
                 calls>>

\* ------------------------------- the express routes of the push adapter
\* GET /sse keeping the transport of a connection that is still open
SseConnectKeepFirst ==
  /\ listening["push"]
  /\ nconn < MaxConns
  /\ nconn' = nconn + 1
  /\ currentTransport' = IF currentTransport = 0 THEN nconn + 1 ELSE currentTransport
  /\ open' = open \cup {nconn + 1}
  /\ UNCHANGED <<inputVars, overlapVars, remoteVars, localVars, pc, registered, listening, calls,
                 outcome, posts>>

\* GET /sse: a new transport becomes currentTransport
SseConnect ==
  /\ listening["push"]
  /\ nconn < MaxConns
  /\ nconn' = nconn + 1
  /\ currentTransport' = nconn + 1
  /\ open' = open \cup {nconn + 1}
  /\ UNCHANGED <<inputVars, overlapVars, remoteVars, localVars, pc, registered, listening, calls,
                 outcome, posts>>

\* req.on("close") of connection c
SseClose(c) ==
  /\ c \in open
  /\ currentTransport' = 0
  /\ open' = open \ {c}
  /\ UNCHANGED <<inputVars, overlapVars, remoteVars, localVars, pc, registered, listening, calls,
                 outcome, posts, nconn>>

\* POST /messages without the test of currentTransport
SsePostNoCheck ==
  /\ listening["push"]
  /\ Len(posts) < MaxPosts
  /\ \E threw \in BOOLEAN :
       posts' = Append(posts,
         IF threw
         THEN [status |-> 500, channel |-> 0, body |-> "error"]
         ELSE [status |-> 202, channel |-> currentTransport, body |-> "accepted"])
  /\ UNCHANGED <<inputVars, overlapVars, remoteVars, localVars, pc, registered, listening, calls,
                 outcome, currentTransport, open, nconn>>

\* POST /messages: 400 without a transport; else the transport handles the
\* message (202), and 500 when handlePostMessage throws
SsePost ==
  /\ listening["push"]
  /\ Len(posts) < MaxPosts
  /\ IF currentTransport = 0
     THEN posts' = Append(posts, [status |-> 400, channel |-> 0, body |-> "error"])
     ELSE \E threw \in BOOLEAN :
            posts' = Append(posts,
              IF threw
              THEN [status |-> 500, channel |-> 0, body |-> "error"]
              ELSE [status |-> 202, channel |-> currentTransport, body |-> "accepted"])
  /\ UNCHANGED <<inputVars, overlapVars, remoteVars, localVars, pc, registered, listening, calls,
                 outcome, currentTransport, open, nconn>>

\* ------------------------------------------------ the specifications
Next ==
  \/ \E p \in procs : Startup(p)
  \/ \E p \in procs : CallTool(p)
  \/ \E p \in procs : UploadReturns(p)
  \/ \E p \in procs : ChatReturns(p)
  \/ \E p \in procs : ReadChunk(p)
  \/ \E p \in procs : ProcessLine(p)
  \/ \E p \in procs : StreamEnd(p)
  \/ CliMain
  \/ CliUploadReturns
  \/ CliChatReturns
  \/ CliReadChunk
  \/ CliProcessLine
  \/ CliStreamEnd

Spec == Init /\ [][Next]_vars

\* the push adapter and its HTTP clients
InitSse ==
  /\ procs = {"push"}
  /\ apiKey \in BOOLEAN
  /\ request = NoRequest
  /\ argv = NoArgv
  /\ InitLocals

NextSse ==
  \/ Startup("push")
  \/ SseConnect
  \/ \E c \in open : SseClose(c)
  \/ SsePost

SpecSse == InitSse /\ [][NextSse]_vars

\* both adapters, given the same request and the same remote answers
InitPair ==
  /\ procs = Adapters
  /\ apiKey \in BOOLEAN
  /\ request \in Requests
  /\ argv = NoArgv
  /\ InitLocals

NextPair ==
  \/ \E p \in procs : Startup(p)
  \/ \E p \in procs : CallTool(p)
  \/ \E p \in procs : UploadReturns(p)
  \/ \E p \in procs : ChatReturns(p)
  \/ \E p \in procs : ReadChunk(p)
  \/ \E p \in procs : ProcessLine(p)
  \/ \E p \in procs : StreamEnd(p)

SpecPair == InitPair /\ [][NextPair]_vars

\* one adapter and one tool call whose remote calls return or fail and
\* whose response stream, of up to CallMaxLines lines, reaches end-of-data
InitCall ==
  /\ procs \in {{"pipe"}, {"push"}}
  /\ apiKey \in BOOLEAN
  /\ request \in Requests
  /\ argv = NoArgv
  /\ uploadResp = Unset
  /\ chatResp \in ChatResps
  /\ chunks = <<>>
  /\ rest \in IF chatResp.state = "ok" THEN StreamsOf(CallMaxLines) ELSE {<<>>}
  /\ pc = [p \in AllProcs |-> IF p \in procs THEN "start" ELSE "off"]
  /\ registered = [p \in AllProcs |-> FALSE]
  /\ listening = [p \in AllProcs |-> FALSE]
  /\ calls = [p \in AllProcs |-> <<>>]
  /\ files = [p \in AllProcs |-> <<>>]
  /\ fullResponse = [p \in AllProcs |-> <<>>]
  /\ isError = [p \in AllProcs |-> FALSE]
  /\ lines = [p \in AllProcs |-> <<>>]
  /\ nread = [p \in AllProcs |-> 0]
  /\ outcome = [p \in AllProcs |-> NoOutcome]
  /\ stdout = <<>>
  /\ currentTransport = 0
  /\ open = {}
  /\ nconn = 0
  /\ posts = <<>>
  /\ InitCalls

NextCall ==
  \/ \E p \in procs : Startup(p)
  \/ \E p \in procs : CallTool(p)
  \/ \E p \in procs : UploadReturns(p)
  \/ \E p \in procs : ChatReturns(p)
  \/ \E p \in procs : ReadChunk(p)
  \/ \E p \in procs : ProcessLine(p)
  \/ \E p \in procs : StreamEnd(p)

SpecCall == InitCall /\ [][NextCall]_vars /\ WF_vars(NextCall)

\* --------------------------- two overlapping tool calls of one adapter
\* the adapter that runs
Prog == CHOOSE p \in procs : TRUE

\* one variable holding fullResponse and isError for every call
SlotShared(c) == "c1"

\* fullResponse and isError are declared with let inside the handler: each
\* call has its own
Slot(c) == c

\* the chunks the remote may send: whole lines
OvChunkSet ==
  { <<"D", "{", "a:x", "}", "NL">>,
    <<"D", "{", "a:y", "}", "NL">>,
    <<"D", "{", "e:m", "}", "NL", "D", "{", "a:x", "}", "NL">> }

\* for (const line of lines) over the lines ls of one chunk
RECURSIVE RunLines(_, _, _)
RunLines(p, acc, ls) ==
  IF ls = <<>> THEN acc
  ELSE LET r == LineOf(p, acc, Head(ls))
           next == [fullResponse |-> r.fullResponse, isError |-> r.isError]
       IN IF r.ctl = "break" THEN next ELSE RunLines(p, next, Tail(ls))

\* the handler of call c up to its first await
OvCallTool(c) ==
  /\ pc[Prog] = "ready"
  /\ callPc[c] = "idle"
  /\ \E req \in Requests :
       /\ callRequest' = [callRequest EXCEPT ![c] = req]
       /\ IF req.name # ToolNameOf(Prog)
          THEN /\ callOutcome' = [callOutcome EXCEPT
                      ![c] = Thrown(McpError("MethodNotFound", <<>>))]
               /\ callPc' = [callPc EXCEPT ![c] = "done"]
               /\ UNCHANGED callCalls
          ELSE IF ~ValidArgs(Prog, req.arguments)
          THEN /\ callOutcome' = [callOutcome EXCEPT
                      ![c] = Thrown(McpError("InvalidParams", <<>>))]
               /\ callPc' = [callPc EXCEPT ![c] = "done"]
               /\ UNCHANGED callCalls
          ELSE IF Truthy(req.arguments.imageFilePath)
          THEN /\ callCalls' = [callCalls EXCEPT
                      ![c] = Append(@, UploadCall(req.arguments.imageFilePath.s,
                                                  UserOf(Prog)))]
               /\ callPc' = [callPc EXCEPT ![c] = "awaitUpload"]
               /\ UNCHANGED callOutcome
          ELSE /\ callCalls' = [callCalls EXCEPT
                      ![c] = Append(@, ChatCall(req.arguments.query.s, <<>>,
                                                UserOf(Prog)))]
               /\ callPc' = [callPc EXCEPT ![c] = "awaitChat"]
               /\ UNCHANGED callOutcome
  /\ UNCHANGED <<inputVars, remoteVars, localVars, httpVars, pc, registered,
                 listening, calls, outcome, callUploadResp, callChatResp,
                 callChunks, slotFullResponse, slotIsError>>

\* the upload of call c returns or fails
OvUploadReturns(c) ==
  /\ callPc[c] = "awaitUpload"
  /\ \E resp \in UploadResps :
       /\ callUploadResp' = [callUploadResp EXCEPT ![c] = resp]
       /\ LET up == UploadFileOf(Prog, resp)
          IN IF up.threw
             THEN /\ callOutcome' = [callOutcome EXCEPT
                         ![c] = CatchOf(Prog, up.error)]
                  /\ callPc' = [callPc EXCEPT ![c] = "done"]
                  /\ UNCHANGED callCalls
             ELSE /\ callCalls' = [callCalls EXCEPT
                         ![c] = Append(@, ChatCall(callRequest[c].arguments.query.s,
                                                   <<FileInput(up.id)>>,
                                                   UserOf(Prog)))]
                  /\ callPc' = [callPc EXCEPT ![c] = "awaitChat"]
                  /\ UNCHANGED callOutcome
  /\ UNCHANGED <<inputVars, remoteVars, localVars, httpVars, pc, registered,
                 listening, calls, outcome, callRequest, callChatResp, callChunks,
                 slotFullResponse, slotIsError>>

\* the chat-messages call of c returns or fails; on success fullResponse
\* and isError are set up and the stream loop begins
OvChatReturns(c) ==
  /\ callPc[c] = "awaitChat"
  /\ \E resp \in ChatResps :
       /\ callChatResp' = [callChatResp EXCEPT ![c] = resp]
       /\ IF resp.state = "ok"
          THEN /\ slotFullResponse' = [slotFullResponse EXCEPT ![Slot(c)] = <<>>]
               /\ slotIsError' = [slotIsError EXCEPT ![Slot(c)] = FALSE]
               /\ callPc' = [callPc EXCEPT ![c] = "stream"]
               /\ UNCHANGED callOutcome
          ELSE /\ callOutcome' = [callOutcome EXCEPT
                      ![c] = CatchOf(Prog, AxiosError(resp.respMsg))]
               /\ callPc' = [callPc EXCEPT ![c] = "done"]
               /\ UNCHANGED <<slotFullResponse, slotIsError>>
  /\ UNCHANGED <<inputVars, remoteVars, localVars, httpVars, pc, registered,
                 listening, calls, outcome, callRequest, callUploadResp,
                 callChunks, callCalls>>

\* one chunk of the stream of c arrives and all its lines are processed
OvReadChunk(c) ==
  /\ callPc[c] = "stream"
  /\ Len(callChunks[c]) < OvMaxChunks
  /\ \E chunk \in OvChunkSet :
       LET acc == RunLines(Prog,
                           [fullResponse |-> slotFullResponse[Slot(c)],
                            isError |-> slotIsError[Slot(c)]],
                           Split(chunk))
       IN /\ callChunks' = [callChunks EXCEPT ![c] = Append(@, chunk)]
          /\ slotFullResponse' =
               [slotFullResponse EXCEPT ![Slot(c)] = acc.fullResponse]
          /\ slotIsError' = [slotIsError EXCEPT ![Slot(c)] = acc.isError]
  /\ UNCHANGED <<inputVars, remoteVars, localVars, httpVars, pc, registered,
                 listening, calls, outcome, callPc, callRequest, callUploadResp,
                 callChatResp, callCalls, callOutcome>>

\* the stream of c signals end-of-data: the handler returns
OvStreamEnd(c) ==
  /\ callPc[c] = "stream"
  /\ callOutcome' = [callOutcome EXCEPT
        ![c] = ToolResult(slotFullResponse[Slot(c)], slotIsError[Slot(c)])]
  /\ callPc' = [callPc EXCEPT ![c] = "done"]
  /\ UNCHANGED <<inputVars, remoteVars, localVars, httpVars, pc, registered,
                 listening, calls, outcome, callRequest, callUploadResp,
                 callChatResp, callChunks, callCalls, slotFullResponse,
                 slotIsError>>

InitOverlap ==
  /\ procs \in {{"pipe"}, {"push"}}
  /\ apiKey \in BOOLEAN
  /\ request = NoRequest
  /\ argv = NoArgv
  /\ InitLocals

NextOverlap ==
  \/ \E p \in procs : Startup(p)
  \/ \E c \in Calls : OvCallTool(c)
  \/ \E c \in Calls : OvUploadReturns(c)
  \/ \E c \in Calls : OvChatReturns(c)
  \/ \E c \in Calls : OvReadChunk(c)
  \/ \E c \in Calls : OvStreamEnd(c)

SpecOverlap == InitOverlap /\ [][NextOverlap]_vars

\* ------------------------------------------- what the claims speak of
Final == {"done", "crashed"}

\* all the bytes of the chunks cs, and the lines the handler sees in them
RECURSIVE Flatten(_)
Flatten(cs) == IF cs = <<>> THEN <<>> ELSE Head(cs) \o Flatten(Tail(cs))
RECURSIVE ChunkLines(_)
ChunkLines(cs) == IF cs = <<>> THEN <<>> ELSE Split(Head(cs)) \o ChunkLines(Tail(cs))
NonEmpty(ls) == SelectSeq(ls, LAMBDA l : l # <<>>)

\* a record: a "data: " line whose payload is a JSON object
IsRecord(line) ==
  /\ StartsWithData(line)
  /\ JSONParse(Slice6(line)).ok
  /\ ~JSONParse(Slice6(line)).isNull
IsErrorRecord(line) == IsRecord(line) /\ Truthy(JSONParse(Slice6(line)).error)

\* no chunk boundary falls inside a line: the lines seen chunk by chunk are
\* the lines of the whole stream
LinesInsideChunks == NonEmpty(ChunkLines(chunks)) = NonEmpty(Split(Flatten(chunks)))

\* the answer fragments of the records among ls, in order of arrival
RECURSIVE AnswersOf(_)
AnswersOf(ls) ==
  IF ls = <<>> THEN <<>>
  ELSE (IF IsRecord(Head(ls))
        THEN Letters(JSONParse(Slice6(Head(ls))).answer)
        ELSE <<>>) \o AnswersOf(Tail(ls))

\* the handler of p read the whole stream and returned
Aggregated(p) ==
  /\ pc[p] = "done"
  /\ chatResp.state = "ok"
  /\ outcome[p].kind = "result"

\* C1: when every record lies inside one chunk and none carries an error, the
\* text returned is the concatenation of the records' answer fragments in
\* order of arrival (nothing for a record without one), and isError is false.
C1_Concatenation ==
  \A p \in procs \cap Adapters :
    ( /\ Aggregated(p)
      /\ LinesInsideChunks
      /\ \A i \in 1..Len(ChunkLines(chunks)) : ~IsErrorRecord(ChunkLines(chunks)[i]) )
    => /\ outcome[p].text = AnswersOf(Split(Flatten(chunks)))
       /\ outcome[p].isError = FALSE

C1_Witness ==
  /\ Aggregated("pipe")
  /\ chunks = << <<"D", "{", "a:x", "}", "NL">>, <<"D", "{", "a:y", "}", "NL">> >>
  /\ outcome["pipe"].text = <<"x", "y">>

\* C2: when the stream holds an error record, the result has isError = true
\* and its text is exactly the message of the first error record.
C2_FirstErrorIsFinalText ==
  \A p \in procs \cap Adapters :
    LET ls == ChunkLines(chunks)
        errs == SelectSeq(ls, IsErrorRecord)
    IN (Aggregated(p) /\ errs # <<>>)
       => /\ outcome[p].isError = TRUE
          /\ outcome[p].text = Letters(JSONParse(Slice6(Head(errs))).error)

\* the arguments the claims call invalid: query missing or not a string, or an
\* imageFilePath that is given and is not a string naming an existing file
QueryMissingOrNotString(args) == args.type # "object" \/ args.query.type # "string"
ImageNotAFile(args) ==
  /\ args.imageFilePath.type # "undefined"
  /\ ~(args.imageFilePath.type = "string" /\ args.imageFilePath.s \in ExistingPaths)
InvalidArguments(args) == QueryMissingOrNotString(args) \/ ImageNotAFile(args)

\* C3 (as amended): a tool call with invalid arguments never issues a remote
\* call, and is rejected: with InvalidParams when the tool name is the
\* registered one, with MethodNotFound when it is not.
C3_InvalidRejected ==
  \A p \in procs \cap Adapters :
    InvalidArguments(request.arguments)
    => /\ calls[p] = <<>>
       /\ pc[p] \in {"start", "ready", "done", "crashed"}
       /\ pc[p] = "done"
          => /\ outcome[p].kind = "McpError"
             /\ outcome[p].code =
                  IF request.name = "antd-component-codegen-mcp-tool"
                  THEN "InvalidParams" ELSE "MethodNotFound"

C3_Witness ==
  /\ request.name = "antd-component-codegen-mcp-tool"
  /\ request.arguments.query = Str("q")
  /\ request.arguments.imageFilePath = Str("/gone.png")
  /\ pc["push"] = "done"
  /\ outcome["push"].code = "InvalidParams"

\* C3 as stated: every tool call with invalid arguments is rejected with
\* InvalidParams.
C3_AlwaysInvalidParams ==
  \A p \in procs \cap Adapters :
    (InvalidArguments(request.arguments) /\ pc[p] = "done")
    => (outcome[p].kind = "McpError" /\ outcome[p].code = "InvalidParams")

\* C4: a call of the registered tool whose query is the empty string is
\* rejected with InvalidParams and no chat-messages call is issued for it.
C4_EmptyQueryRejected ==
  \A p \in procs \cap Adapters :
    ( /\ request.name = "antd-component-codegen-mcp-tool"
      /\ request.arguments.type = "object"
      /\ request.arguments.query = Str("") )
    => /\ \A i \in 1..Len(calls[p]) : calls[p][i].api # "chat"
       /\ pc[p] = "done"
          => (outcome[p].kind = "McpError" /\ outcome[p].code = "InvalidParams")

\* C5: for a validated call, a failed chat-messages call ends in a tool result
\* with isError = true and the remote's message (else the transport's) as
\* text; a failed upload ends in the McpError InternalError, and no
\* chat-messages call is made.
C5_RemoteFailures ==
  \A p \in procs \cap Adapters :
    /\ (chatResp.state = "fail" /\ pc[p] = "done")
       => /\ outcome[p].kind = "result"
          /\ outcome[p].isError = TRUE
          /\ outcome[p].text =
               IF chatResp.respMsg.type = "string" THEN <<chatResp.respMsg.s>>
               ELSE <<"t">>
    /\ uploadResp.state = "fail"
       => /\ \A i \in 1..Len(calls[p]) : calls[p][i].api # "chat"
          /\ pc[p] = "done"
          /\ outcome[p].kind = "McpError"
          /\ outcome[p].code = "InternalError"

C5_Witness ==
  /\ pc["pipe"] = "done"
  /\ uploadResp.state = "ok"
  /\ chatResp.state = "fail"
  /\ outcome["pipe"] = ToolResult(<<"r">>, TRUE)

\* C6: the push adapter holds one transport reference; a POST /messages that
\* finds it null is answered 400 with an error body and goes to no channel.
\* It is null before the first GET /sse and after every disconnect.
C6_NoChannelRejects ==
  [][ /\ (posts' # posts /\ currentTransport = 0)
         => posts' = Append(posts, [status |-> 400, channel |-> 0, body |-> "error"])
      /\ nconn = 0 => currentTransport = 0
      /\ (\E c \in open : c \notin open') => currentTransport' = 0
      /\ currentTransport' \in 0..nconn' ]_vars

C6_Witness ==
  /\ nconn = 1
  /\ open = {}
  /\ Len(posts) = 3
  /\ posts[1].status = 400
  /\ posts[2] = [status |-> 202, channel |-> 1, body |-> "accepted"]
  /\ posts[3] = [status |-> 400, channel |-> 0, body |-> "error"]

\* a line the aggregation passes over: no "data: " marker, or a payload
\* JSON.parse rejects
Unparseable(line) == ~StartsWithData(line) \/ ~JSONParse(Slice6(line)).ok

\* C7: the step on a line without the marker "data: ", or with a payload that
\* cannot be parsed, leaves fullResponse and isError as they are and goes on
\* to the next line of the chunk, or to the next chunk after the last line.
C7_SkippedLines ==
  [][ \A p \in procs \cap Adapters :
        (pc[p] = "line" /\ lines'[p] # lines[p] /\ Unparseable(Head(lines[p])))
        => /\ fullResponse'[p] = fullResponse[p]
           /\ isError'[p] = isError[p]
           /\ lines'[p] = Tail(lines[p])
           /\ pc'[p] = IF Tail(lines[p]) = <<>> THEN "stream" ELSE "line"
           /\ outcome'[p] = outcome[p] ]_vars

C7_Witness ==
  /\ Aggregated("pipe")
  /\ chunks = << <<"D", "{", "a:x", "NL">>, <<"D", "{", "a:y", "}", "NL">> >>
  /\ outcome["pipe"] = ToolResult(<<"y">>, FALSE)

\* the image path the caller of p supplied, or undefined
SuppliedImage(p) ==
  IF p = "cli" THEN argv.imageFilePath ELSE request.arguments.imageFilePath

\* C8: in every entry point, the chat-messages call of a request that supplied
\* an imageFilePath follows a successful upload of it and carries exactly the
\* file reference with the id the upload returned; without an imageFilePath
\* it carries no file.
C8_ImageResolved ==
  \A p \in procs :
    \A i \in 1..Len(calls[p]) :
      calls[p][i].api = "chat"
      => IF SuppliedImage(p).type # "undefined"
         THEN /\ i > 1
              /\ calls[p][i - 1].api = "upload"
              /\ calls[p][i - 1].arg = SuppliedImage(p).s
              /\ uploadResp.state = "ok"
              /\ calls[p][i].files = <<FileInput(uploadResp.id)>>
         ELSE calls[p][i].files = <<>>

\* C9: given the same request, file system and remote answers, the pipe
\* adapter and the push adapter end alike: the same error code or the same
\* text and isError, after the same remote calls.
C9_AdaptersAgree ==
  (pc["pipe"] \in Final /\ pc["push"] \in Final)
  => /\ pc["pipe"] = pc["push"]
     /\ outcome["pipe"] = outcome["push"]
     /\ calls["pipe"] = calls["push"]

C9_Witness ==
  /\ pc["pipe"] = "done"
  /\ pc["push"] = "done"
  /\ Len(calls["push"]) = 2
  /\ Len(chunks) = 2
  /\ outcome["push"] = ToolResult(<<"m">>, TRUE)

ClaimedUser(p) ==
  CASE p = "pipe" -> "pipe-user"
    [] p = "push" -> "push-user"
    [] OTHER -> "cli-user"

\* C11: every upload and chat-messages call carries the identifier of its
\* entry point: "pipe-user", "push-user" or "cli-user", each a different one.
C11_UserPerTransport ==
  \A p \in procs :
    \A i \in 1..Len(calls[p]) : calls[p][i].user = ClaimedUser(p)

\* C12: a POST /messages made while the most recently opened /sse connection
\* is still open is handed to that connection's transport, not answered 400.
C12_NewestConnectionServes ==
  [][ (posts' # posts /\ nconn > 0 /\ nconn \in open)
      => /\ posts'[Len(posts')].status # 400
         /\ posts'[Len(posts')].channel \in {0, nconn} ]_vars

\* C13: a GET /sse makes its transport the current one, also while an earlier
\* connection is open, and a POST /messages that is accepted goes to the
\* most recently opened connection's transport, never to an earlier one.
C13_SecondReplacesFirst ==
  [][ /\ nconn' # nconn => currentTransport' = nconn'
      /\ currentTransport' \in {0, nconn'}
      /\ (posts' # posts /\ posts'[Len(posts')].status = 202)
         => posts'[Len(posts')].channel = nconn ]_vars

C13_Witness ==
  /\ open = {1, 2}
  /\ currentTransport = 2
  /\ Len(posts) = 2
  /\ posts[1] = [status |-> 202, channel |-> 1, body |-> "accepted"]
  /\ posts[2] = [status |-> 202, channel |-> 2, body |-> "accepted"]

\* C14: a record with an error sets isError, replaces the accumulated text by
\* the error text and ends the processing of its chunk, without returning;
\* after it every further chunk is still read and split, its lines are
\* processed by the same rules, and the handler returns only at end-of-data.
C14_ErrorEndsChunkOnly ==
  [][ \A p \in procs \cap Adapters :
        /\ (pc[p] = "line" /\ IsErrorRecord(Head(lines[p])))
           => /\ isError'[p]
              /\ fullResponse'[p] = Letters(JSONParse(Slice6(Head(lines[p]))).error)
              /\ lines'[p] = <<>>
              /\ pc'[p] = "stream"
              /\ outcome'[p] = NoOutcome
        /\ (pc[p] = "stream" /\ isError[p] /\ (nread[p] < Len(chunks) \/ rest # <<>>))
           => /\ nread'[p] = nread[p] + 1
              /\ lines'[p] = Split(chunks'[nread'[p]])
              /\ pc'[p] = "line"
              /\ outcome'[p] = NoOutcome
        /\ (pc[p] = "line" /\ isError[p] /\ ~IsErrorRecord(Head(lines[p])))
           => /\ isError'[p]
              /\ fullResponse'[p] = fullResponse[p] \o AnswersOf(<<Head(lines[p])>>)
              /\ lines'[p] = Tail(lines[p])
        /\ (pc[p] = "stream" /\ outcome'[p] # outcome[p])
           => /\ nread[p] = Len(chunks)
              /\ rest = <<>> ]_vars

C14_Witness ==
  \E p \in procs \cap Adapters :
    /\ Aggregated(p)
    /\ chunks = << <<"D", "{", "e:m", "}", "NL">>, <<"D", "{", "a:x", "}", "NL">> >>
    /\ outcome[p] = ToolResult(<<"m", "x">>, TRUE)

\* the positions of the byte stream after which a chunk of cs ends and
\* another one begins
Boundaries(cs) == {Len(Flatten(SubSeq(cs, 1, j))) : j \in 1..(Len(cs) - 1)}

\* line k of the lines ls of a text starts at this position of the text
LineStart(ls, k) == Len(Flatten(SubSeq(ls, 1, k - 1))) + k

\* a chunk boundary falls between two bytes of line k of the whole stream
CutLine(cs, k) ==
  LET ls == Split(Flatten(cs))
  IN \E b \in Boundaries(cs) :
       LineStart(ls, k) <= b /\ b < LineStart(ls, k) + Len(ls[k]) - 1

\* the lines of the whole stream that lie inside one chunk
UncutLines(cs) ==
  LET ls == Split(Flatten(cs))
      ks == SelectSeq([k \in 1..Len(ls) |-> k], LAMBDA k : ~CutLine(cs, k))
  IN [j \in 1..Len(ks) |-> ls[ks[j]]]

\* the line of the whole stream that the line being processed by p is part of
WholeLineOf(p) ==
  LET W == Flatten(chunks) \o rest
      ls == Split(chunks[nread[p]])
      i == Len(ls) - Len(lines[p]) + 1
      a == Len(Flatten(SubSeq(chunks, 1, nread[p] - 1))) + LineStart(ls, i)
      b == a + Len(ls[i]) - 1
      s == CHOOSE j \in 1..a :
             /\ j = 1 \/ W[j - 1] = "NL"
             /\ \A k \in j..(a - 1) : W[k] # "NL"
      e == CHOOSE j \in b..Len(W) :
             /\ j = Len(W) \/ W[j + 1] = "NL"
             /\ \A k \in (b + 1)..j : W[k] # "NL"
  IN SubSeq(W, s, e)

\* p is processing a piece of a record that a chunk boundary has cut
CutRecordPiece(p) ==
  /\ pc[p] = "line"
  /\ Head(lines[p]) # <<>>
  /\ Head(lines[p]) # WholeLineOf(p)
  /\ IsRecord(WholeLineOf(p))

\* C15: each chunk is split on its own. A piece of a record cut by a chunk
\* boundary changes neither the text nor isError and does not end the
\* aggregation: the next line is processed. With no error record inside one
\* chunk, the text returned is the answers of the records that lie inside
\* one chunk, so it changes with the division into chunks.
C15_CutRecordContributesNothing ==
  [][ \A p \in procs \cap Adapters :
        /\ CutRecordPiece(p)
           => /\ fullResponse'[p] = fullResponse[p]
              /\ isError'[p] = isError[p]
              /\ lines'[p] = Tail(lines[p])
              /\ outcome'[p] = NoOutcome
        /\ ( /\ pc[p] = "stream"
             /\ outcome'[p] # outcome[p]
             /\ \A k \in 1..Len(UncutLines(chunks)) :
                  ~IsErrorRecord(UncutLines(chunks)[k]) )
           => /\ outcome'[p].text = AnswersOf(UncutLines(chunks))
              /\ outcome'[p].isError = FALSE ]_vars

C15_Witness ==
  \E p \in procs \cap Adapters :
    /\ Aggregated(p)
    /\ chunks = << <<"D", "{", "a:x">>, <<"}", "NL", "D", "{", "a:y", "}", "NL">> >>
    /\ outcome[p] = ToolResult(<<"y">>, FALSE)
    /\ outcome[p].text # AnswersOf(Split(Flatten(chunks)))

\* C16: isError is false when the aggregation starts, no step of reading a
\* chunk or processing a line sets it back from true to false, and the
\* isError returned is true exactly when a record that was parsed carried
\* an error.
C16_IsErrorMonotonic ==
  [][ \A p \in procs \cap Adapters :
        /\ (pc[p] = "awaitChat" /\ pc'[p] = "stream") => isError'[p] = FALSE
        /\ (pc[p] \in {"stream", "line"} /\ isError[p]) => isError'[p]
        /\ (pc[p] = "line" /\ isError'[p] /\ ~isError[p])
           => IsErrorRecord(Head(lines[p]))
        /\ (pc[p] = "stream" /\ outcome'[p] # outcome[p])
           => /\ outcome'[p].isError = isError[p]
              /\ outcome'[p].isError
                 <=> \E k \in 1..Len(ChunkLines(chunks)) :
                       IsErrorRecord(ChunkLines(chunks)[k]) ]_vars

C16_Witness ==
  \E p \in procs \cap Adapters :
    /\ Aggregated(p)
    /\ chunks = << <<"D", "{", "e:n", "}", "NL">>, <<"D", "{", "a:y", "}", "NL">> >>
    /\ outcome[p] = ToolResult(<<"n", "y">>, TRUE)

\* the lines the command line tool has been through: those of the chunks
\* before the current one, and of the current one those no longer waiting
CliProcessed ==
  IF nread["cli"] = 0 THEN <<>>
  ELSE LET ls == Split(chunks[nread["cli"]])
       IN ChunkLines(SubSeq(chunks, 1, nread["cli"] - 1))
            \o SubSeq(ls, 1, Len(ls) - Len(lines["cli"]))

\* what the claim says of the command line tool in one state
CliOutputInOrder ==
  /\ ~Truthy(argv.query)
     => /\ calls["cli"] = <<>>
        /\ pc["cli"] = "done"
           => outcome["cli"].kind = "exit" /\ outcome["cli"].code = "1"
  /\ stdout = AnswersOf(CliProcessed)
  /\ \A k \in 1..Len(CliProcessed) : ~IsErrorRecord(CliProcessed[k])
  /\ outcome["cli"].kind = "errorRecord"
     => /\ pc["cli"] = "done"
        /\ IsErrorRecord(Head(lines["cli"]))

\* C19: the command line tool without a query exits with code 1 and has
\* made no remote call; with one, what it has written is, at every moment,
\* the answer fragments of the records gone through so far, in order of
\* arrival; the step that meets an error record writes nothing and ends the
\* run, so that nothing of the rest of the chunk or of a later chunk is
\* written.
C19_CliWritesUntilError ==
  /\ []("cli" \in procs => CliOutputInOrder)
  /\ [][ "cli" \in procs
          => /\ (pc["cli"] = "start" /\ ~Truthy(argv.query))
                => outcome'["cli"].kind = "exit" /\ pc'["cli"] = "done"
             /\ (pc["cli"] = "line" /\ IsErrorRecord(Head(lines["cli"])))
                => /\ stdout' = stdout
                   /\ pc'["cli"] = "done"
                   /\ outcome'["cli"].kind = "errorRecord"
             /\ pc["cli"] = "done" => stdout' = stdout ]_vars

C19_Witness ==
  /\ "cli" \in procs
  /\ pc["cli"] = "done"
  /\ outcome["cli"].kind = "errorRecord"
  /\ chunks = << <<"D", "{", "a:x", "}", "NL">>, <<"D", "{", "e:m", "}", "NL">> >>
  /\ stdout = <<"x">>

\* the outcome the fixed order of the handler's tests gives the call of p
OutcomeInOrder(p) ==
  LET args == request.arguments
  IN IF request.name # ToolNameOf(p)
     THEN /\ outcome[p].kind = "McpError"
          /\ outcome[p].code = "MethodNotFound"
          /\ calls[p] = <<>>
     ELSE IF InvalidArguments(args)
     THEN /\ outcome[p].kind = "McpError"
          /\ outcome[p].code = "InvalidParams"
          /\ calls[p] = <<>>
     ELSE IF Truthy(args.imageFilePath) /\ uploadResp.state = "fail"
     THEN /\ outcome[p].kind = "McpError"
          /\ outcome[p].code = "InternalError"
          /\ \A i \in 1..Len(calls[p]) : calls[p][i].api # "chat"
     ELSE IF chatResp.state = "fail"
     THEN /\ outcome[p].kind = "result"
          /\ outcome[p].isError = TRUE
          /\ chunks = <<>>
     ELSE /\ outcome[p] = ToolResult(fullResponse[p], isError[p])
          /\ nread[p] = Len(chunks)
          /\ rest = <<>>
          /\ lines[p] = <<>>

\* C17: a tool call whose remote calls return or fail and whose stream
\* reaches end-of-data ends with one outcome, set once and never changed:
\* MethodNotFound for another tool name, whatever the arguments; else
\* InvalidParams for invalid arguments; else InternalError when the upload
\* fails; else a result with isError when the chat call fails; else the
\* aggregated text and isError, returned when no chunk is left.
C17_OneOutcomeInOrder ==
  /\ \A p \in Adapters : (pc[p] = "ready") ~> (pc[p] = "done")
  /\ [](\A p \in procs :
          IF pc[p] = "done" THEN OutcomeInOrder(p)
          ELSE pc[p] # "crashed" => outcome[p] = NoOutcome)
  /\ [][ \A p \in procs :
           outcome'[p] # outcome[p]
           => outcome[p] = NoOutcome /\ pc'[p] \in Final ]_vars

C17_Witness ==
  \E p \in procs :
    /\ pc[p] = "done"
    /\ request.name = "other-tool"
    /\ request.arguments.query = Num("5")
    /\ outcome[p] = Thrown(McpError("MethodNotFound", <<>>))

\* the text and flag after the chunks cs, each processed as a whole
RECURSIVE RunChunks(_, _, _)
RunChunks(p, acc, cs) ==
  IF cs = <<>> THEN acc
  ELSE RunChunks(p, RunLines(p, acc, Split(Head(cs))), Tail(cs))

\* what a call returns when it runs with no other call: from its own
\* request, the answers to its own remote calls and its own chunks
RunAlone(p, req, up, chat, cs) ==
  IF req.name # ToolNameOf(p) THEN Thrown(McpError("MethodNotFound", <<>>))
  ELSE IF ~ValidArgs(p, req.arguments) THEN Thrown(McpError("InvalidParams", <<>>))
  ELSE IF Truthy(req.arguments.imageFilePath) /\ up.state = "fail"
  THEN CatchOf(p, UploadFileOf(p, up).error)
  ELSE IF chat.state = "fail" THEN CatchOf(p, AxiosError(chat.respMsg))
  ELSE LET acc == RunChunks(p, [fullResponse |-> <<>>, isError |-> FALSE], cs)
       IN ToolResult(acc.fullResponse, acc.isError)

\* C18: with two tool calls of one adapter interleaved at their awaits, the
\* text and flag a call has accumulated are those of its own chunks, and
\* what it returns is what it returns when run alone on its own request,
\* remote answers and chunks.
C18_CallsDoNotInterfere ==
  \A c \in Calls :
    /\ callPc[c] = "stream"
       => LET acc == RunChunks(Prog, [fullResponse |-> <<>>, isError |-> FALSE],
                               callChunks[c])
          IN /\ slotFullResponse[Slot(c)] = acc.fullResponse
             /\ slotIsError[Slot(c)] = acc.isError
    /\ callPc[c] = "done"
       => callOutcome[c] = RunAlone(Prog, callRequest[c], callUploadResp[c],
                                    callChatResp[c], callChunks[c])

C18_Witness ==
  /\ callPc["c1"] = "stream"
  /\ callChunks["c1"] =
       << <<"D", "{", "a:x", "}", "NL">>, <<"D", "{", "a:y", "}", "NL">> >>
  /\ slotFullResponse["c1"] = <<"x", "y">>
  /\ slotIsError["c1"] = FALSE
  /\ callPc["c2"] = "stream"
  /\ callChunks["c2"] =
       << <<"D", "{", "e:m", "}", "NL", "D", "{", "a:x", "}", "NL">> >>
  /\ slotFullResponse["c2"] = <<"m">>
  /\ slotIsError["c2"] = TRUE
====
